---- MODULE Spec2Model ----
(***************************************************************************)
(* Conway's Game of Life with decaying cells (wincent/conway).             *)
(*                                                                         *)
(* Two variants of the same program are modelled:                          *)
(*   "life"     src/life.js          (setTimeout driver, conditional wrap) *)
(*   "part_000" src/unnamed/part_000 (requestAnimationFrame driver, modulo *)
(*                                    wrap, mouse painting, seed field)    *)
(*                                                                         *)
(* The page is single threaded: a handler runs to completion before the    *)
(* next event is dispatched.  The loops of prepareSeed and iterate are     *)
(* modelled one iteration per step, with pc holding the position of the    *)
(* running handler; events are only dispatched when pc = "idle".           *)
(*                                                                         *)
(* Math.seedrandom is a library that is not part of the sources.  When    *)
(* stream is empty the generator is abstracted: every draw is an           *)
(* unconstrained choice.  Otherwise stream[s] is the sequence of outcomes  *)
(* the generator yields after Math.seedrandom(s), fixed for the whole run. *)
(* The FPS counter of part_000 (frameCount, updateFPS) is left out: it     *)
(* never touches the grid, the canvas or the scheduling.  A mouse move     *)
(* with painting unset changes nothing and is not a step of the model.     *)
(***************************************************************************)
EXTENDS Integers, Sequences, FiniteSets, TLC

VARIABLES
  variant,     \* which source file runs: "life" or "part_000"
  width,       \* $canvas.width() / multiplier
  height,      \* $canvas.height() / multiplier
  dyingDelta,  \* 4, or 255 'to behave like "normal" Game of Life'
  stream,      \* outcomes of the seeded generator, per seed (or <<>>)
  seed,        \* prepareSeed's parameter while it runs, "" otherwise
  cells,       \* cells[x][y], here cells[<<x, y>>]
  columns,     \* the x for which the array cells[x] has been created
  fault,       \* an access outside the grid or to a missing column happened
  canvas,      \* colour last painted on the square of each cell
  pc,          \* "seed", "idle", "scan" or "consume"
  i,           \* loop variable of the running loop
  queue,       \* iterate's local queue of operations
  before,      \* history: the grid as it was when iterate began
  iterating,   \* the iterating flag
  timer,       \* life.js timer variable: "none", "live" or "stale"
  pending,     \* number of scheduled iterate callbacks not yet run
  painting,    \* part_000 painting flag
  btn,         \* enabled state of the four buttons
  gen,         \* generations computed since construction
  paints,      \* mouse events that reached paint() with painting set
  resets       \* resets requested since construction

vars == <<variant, width, height, dyingDelta, stream, seed, cells, columns,
          fault, canvas, pc, i, queue, before, iterating, timer, pending,
          painting, btn, gen, paints, resets>>

config == <<variant, width, height, dyingDelta, stream>>

(***************************************************************************)
(* Program constants.                                                      *)
(***************************************************************************)
multiplier == 5
aliveColor == 0
deadColor  == 255

(***************************************************************************)
(* Bounds of the model.                                                    *)
(***************************************************************************)
MaxGen    == 2   \* generations computed after construction
MaxPaints == 2   \* painting mouse events
MaxResets == 1   \* resets after the one made at construction

Variants    == {"life", "part_000"}
DyingDeltas == {4, 255}
\* canvas sizes in cells <<width, height>> of the full program model
Sizes       == {<<1, 1>>, <<1, 3>>, <<1, 5>>, <<2, 2>>, <<3, 3>>}
\* event.offsetX / event.offsetY of the mouse events, in pixels
MouseOffsets == {-1, 2}

\* texts the seed field of part_000 may hold
SeedTexts == {"", "x"}

\* a slot of cells[x] that was never assigned (JavaScript undefined)
Undefined == -1

cellCount == width * height
Coords    == (0 .. width - 1) \X (0 .. height - 1)

\* row-major position of loop index n: x = n % width, y = floor(n / width)
CoordOf(n) == <<n % width, n \div width>>

\* the access cells[x][y] stays inside the grid and finds the array cells[x]
accessOk(cols, c) == c \in Coords /\ c[1] \in cols

(***************************************************************************)
(* Painting.                                                               *)
(***************************************************************************)
\* clearCanvas(): the whole canvas is filled with rgb(aliveColor)
clearCanvas(cv) == [c \in DOMAIN cv |-> aliveColor]

\* paintCell(x, y, color)
paintCell(cv, c, color) == [cv EXCEPT ![c] = color]

\* renderCells(): every square is painted with its cell's value
renderCells(cv, g) == [c \in DOMAIN cv |-> g[c]]

(***************************************************************************)
(* expireCell and reviveCell: the new value of the cell.                   *)
(***************************************************************************)
\* an expire that assigns the step instead of adding it
expireValueAssigned(v) == dyingDelta

expireValue(v) == v + dyingDelta

reviveValue(v) == aliveColor

(***************************************************************************)
(* prepareSeed: the "inside-out" Fisher-Yates shuffle.                     *)
(***************************************************************************)
\* i < liveCount, with liveCount = cellCount / 10 (a fraction in general)
isLive(n) == 10 * n < cellCount

\* the value written at step n: i < liveCount ? aliveColor : deadColor
seedValue(n) == IF isLive(n) THEN aliveColor ELSE deadColor

\* Math.round(Math.random() * n) with Math.random() in [0, 1)
RandomRange(n) == 0 .. n

\* the seed reset() passes to prepareSeed: 'seed', or $seed.val() || 'seed'
seedOf(text) == IF variant = "life" \/ text = "" THEN "seed" ELSE text

\* the seeds prepareSeed can be called with
Seeds == {seedOf(text) : text \in SeedTexts}

\* the sequences of n outcomes a seeded generator can yield to prepareSeed
Streams(n) ==
  {q \in [1 .. n -> 0 .. n - 1] : \A k \in 1 .. n : q[k] \in RandomRange(k - 1)}

\* the possible outcomes of the draw of pass n, after Math.seedrandom(s)
roundedRandom(s, n) ==
  IF stream = <<>> THEN RandomRange(n) ELSE {stream[s][n + 1]}

\* a shuffle step that forgets to move the previous occupant of slot rand
seedStepNoMove(g, n, rand) == [g EXCEPT ![CoordOf(rand)] = seedValue(n)]

\* one pass of the loop body for index n and random outcome rand
seedStep(g, n, rand) ==
  LET last == CoordOf(n)
      rnd  == CoordOf(rand)
      g1   == [g EXCEPT ![last] = g[rnd]]
  IN  [g1 EXCEPT ![rnd] = seedValue(n)]

(***************************************************************************)
(* iterate: neighbour count and rules.                                     *)
(***************************************************************************)
\* a wrap that stays on the last row or column instead of returning to 0
wrapLifeClamped(j, size) == IF j < 0 THEN size - 1 ELSE IF j = size THEN size - 1 ELSE j

\* life.js: "wrap around if necessary" by comparison
wrapLife(j, size) == IF j < 0 THEN size - 1 ELSE IF j = size THEN 0 ELSE j

\* part_000: (width + j) % width
wrapModulo(j, size) == (size + j) % size

\* life.js counts a probe when its wrapped target is not the cell itself
neighbourCountLife(g, x, y) ==
  Cardinality({p \in ((x - 1) .. (x + 1)) \X ((y - 1) .. (y + 1)) :
     LET neighbourX == wrapLife(p[1], width)
         neighbourY == wrapLife(p[2], height)
     IN  /\ (neighbourX # x \/ neighbourY # y)
         /\ g[<<neighbourX, neighbourY>>] = aliveColor})

\* life.js: the cells read while the neighbours of (x, y) are counted
probesLife(x, y) ==
  {<<wrapLife(p[1], width), wrapLife(p[2], height)>> :
     p \in ((x - 1) .. (x + 1)) \X ((y - 1) .. (y + 1))} \ {<<x, y>>}

\* part_000: the cells read while the neighbours of (x, y) are counted
probesModulo(x, y) ==
  {<<wrapModulo(p[1], width), wrapModulo(p[2], height)>> :
     p \in (((x - 1) .. (x + 1)) \X ((y - 1) .. (y + 1))) \ {<<x, y>>}}

\* every cell read by the scan of (x, y), the cell itself included
scanReads(x, y) ==
  {<<x, y>>} \cup (IF variant = "life" THEN probesLife(x, y) ELSE probesModulo(x, y))

\* a count that does not skip the cell itself
neighbourCountWithSelf(g, x, y) ==
  Cardinality({p \in ((x - 1) .. (x + 1)) \X ((y - 1) .. (y + 1)) :
     g[<<wrapModulo(p[1], width), wrapModulo(p[2], height)>>] = aliveColor})

\* part_000 skips only the offset (0, 0), then wraps
neighbourCountModulo(g, x, y) ==
  Cardinality({p \in ((x - 1) .. (x + 1)) \X ((y - 1) .. (y + 1)) :
     /\ ~(p[1] = x /\ p[2] = y)
     /\ g[<<wrapModulo(p[1], width), wrapModulo(p[2], height)>>] = aliveColor})

neighbourCount(g, x, y) ==
  IF variant = "life" THEN neighbourCountLife(g, x, y)
                      ELSE neighbourCountModulo(g, x, y)

\* a live cell with three live neighbours dies as well
aliveRuleOffByOne(n) == n < 2 \/ n >= 3

\* the rule for a live cell: TRUE when an expire record is pushed
aliveRule(n) == n < 2 \/ n > 3

\* continued decay tested before reproduction
deadRuleDecayFirst(v, n) ==
  IF v > 0 THEN "expire" ELSE IF n = 3 THEN "revive" ELSE "none"

\* the rule for a cell that is not alive: "revive", "expire" or "none"
deadRule(v, n) ==
  IF n = 3 THEN "revive" ELSE IF v > 0 THEN "expire" ELSE "none"

\* "apply rules of Game of Life": the records pushed for cell (x, y) of
\* grid g when its neighbour count is n
applyRules(g, x, y, n) ==
  LET alive == g[<<x, y>>] = aliveColor
  IN  IF alive
        THEN IF aliveRule(n)
               THEN <<[revive |-> FALSE, x |-> x, y |-> y]>>
               ELSE <<>>
        ELSE CASE deadRule(g[<<x, y>>], n) = "revive" ->
                    <<[revive |-> TRUE, x |-> x, y |-> y]>>
               [] deadRule(g[<<x, y>>], n) = "expire" ->
                    <<[revive |-> FALSE, x |-> x, y |-> y]>>
               [] OTHER -> <<>>

\* the records pushed for cell (x, y), read from grid g
scanCell(g, x, y) == applyRules(g, x, y, neighbourCount(g, x, y))

\* item.revive ? reviveCell(item.x, item.y) : expireCell(item.x, item.y)
applyItem(g, item) ==
  LET c == <<item.x, item.y>>
  IN  [g EXCEPT ![c] = IF item.revive THEN reviveValue(g[c])
                                      ELSE expireValue(g[c])]

(***************************************************************************)
(* Initial state: the module body has run up to its call of reset(), the   *)
(* grid is still empty (cells = []) and prepareSeed is about to start.     *)
(* life.js leaves the buttons as the page declares them (taken as enabled);*)
(* part_000's reset() has already called stop() and set the buttons.       *)
(***************************************************************************)
buttonsAfterReset == [start |-> TRUE, stop |-> FALSE, step |-> TRUE, reset |-> FALSE]

buttonsOfPage == [start |-> TRUE, stop |-> TRUE, step |-> TRUE, reset |-> TRUE]

InitFor(sizes, seeded) ==
  /\ variant \in Variants
  /\ \E s \in sizes : width = s[1] /\ height = s[2]
  /\ dyingDelta \in DyingDeltas
  /\ stream \in (IF seeded THEN [Seeds -> Streams(cellCount)] ELSE {<<>>})
  /\ seed \in Seeds
  /\ cells = [c \in Coords |-> Undefined]
  /\ columns = {}
  /\ fault = FALSE
  /\ canvas = [c \in Coords |-> Undefined]
  /\ pc = "seed"
  /\ i = 0
  /\ queue = <<>>
  /\ before = <<>>
  /\ iterating = FALSE
  /\ timer = "none"
  /\ pending = 0
  /\ painting = FALSE
  /\ btn = IF variant = "life" THEN buttonsOfPage ELSE buttonsAfterReset
  /\ gen = 0
  /\ paints = 0
  /\ resets = 0

Init == InitFor(Sizes, FALSE)

(***************************************************************************)
(* reset(): prepareSeed, then clearCanvas and renderCells.                 *)
(***************************************************************************)
\* one iteration of prepareSeed's loop
PrepareSeedStep ==
  /\ pc = "seed"
  /\ i < cellCount
  /\ columns' = columns \cup {CoordOf(i)[1]}
  /\ \E rand \in roundedRandom(seed, i) :
       /\ cells' = seedStep(cells, i, rand)
       /\ fault' = (fault \/ ~accessOk(columns', CoordOf(i))
                          \/ ~accessOk(columns', CoordOf(rand)))
  /\ i' = i + 1
  /\ UNCHANGED <<config, seed, canvas, pc, queue, before, iterating, timer,
                 pending, painting, btn, gen, paints, resets>>

\* the loop is over: clearCanvas(); renderCells(); the handler returns
ResetFinish ==
  /\ pc = "seed"
  /\ i = cellCount
  /\ canvas' = renderCells(clearCanvas(canvas), cells)
  /\ fault' = (fault \/ \E c \in Coords : ~accessOk(columns, c))
  /\ pc' = "idle"
  /\ i' = 0
  /\ seed' = ""
  /\ UNCHANGED <<config, columns, cells, queue, before, iterating, timer,
                 pending, painting, btn, gen, paints, resets>>

(***************************************************************************)
(* iterate().                                                              *)
(***************************************************************************)
\* entry of iterate(): var queue = []; the scan starts at (0, 0)
iterateEnter ==
  /\ gen < MaxGen
  /\ pc' = "scan"
  /\ i' = 0
  /\ queue' = <<>>
  /\ before' = cells
  /\ gen' = gen + 1

\* a scan that applies each record as soon as it is decided
RECURSIVE applyAll(_, _)
applyAll(g, recs) ==
  IF recs = <<>> THEN g ELSE applyAll(applyItem(g, Head(recs)), Tail(recs))

ScanCellInPlace ==
  /\ pc = "scan"
  /\ LET c    == CoordOf(i)
         recs == scanCell(cells, c[1], c[2])
     IN  /\ queue' = queue \o recs
         /\ cells' = applyAll(cells, recs)
         /\ fault' = (fault \/ \E r \in scanReads(c[1], c[2]) :
                                  ~accessOk(columns, r))
  /\ IF i + 1 < cellCount
       THEN /\ i' = i + 1
            /\ pc' = "scan"
       ELSE /\ i' = 0
            /\ pc' = "consume"
  /\ UNCHANGED <<config, seed, columns, canvas, before, iterating, timer,
                 pending, painting, btn, gen, paints, resets>>

\* the body of the scan for one cell, in row-major order
ScanCell ==
  /\ pc = "scan"
  /\ LET c    == CoordOf(i)
         recs == scanCell(cells, c[1], c[2])
     IN  /\ queue' = queue \o recs
         /\ fault' = (fault \/ \E r \in scanReads(c[1], c[2]) :
                                  ~accessOk(columns, r))
  /\ IF i + 1 < cellCount
       THEN /\ i' = i + 1
            /\ pc' = "scan"
       ELSE /\ i' = 0
            /\ pc' = "consume"
  /\ UNCHANGED <<config, seed, columns, cells, canvas, before, iterating,
                 timer, pending, painting, btn, gen, paints, resets>>

\* a consume step that paints the value the cell had before the record
ConsumeItemPaintsOld ==
  /\ pc = "consume"
  /\ i < Len(queue)
  /\ LET item == queue[i + 1]
         c    == <<item.x, item.y>>
     IN  /\ cells' = applyItem(cells, item)
         /\ canvas' = paintCell(canvas, c, cells[c])
         /\ fault' = (fault \/ ~accessOk(columns, c))
  /\ i' = i + 1
  /\ UNCHANGED <<config, seed, columns, pc, queue, before, iterating, timer,
                 pending, painting, btn, gen, paints, resets>>

\* "consume queue": one item is applied and painted
ConsumeItem ==
  /\ pc = "consume"
  /\ i < Len(queue)
  /\ LET item == queue[i + 1]
         c    == <<item.x, item.y>>
     IN  /\ cells' = applyItem(cells, item)
         /\ canvas' = paintCell(canvas, c, cells'[c])
         /\ fault' = (fault \/ ~accessOk(columns, c))
  /\ i' = i + 1
  /\ UNCHANGED <<config, seed, columns, pc, queue, before, iterating, timer,
                 pending, painting, btn, gen, paints, resets>>

\* if (queue.length && iterating) the next run is scheduled; iterate returns
IterateFinish ==
  /\ pc = "consume"
  /\ i = Len(queue)
  /\ IF Len(queue) > 0 /\ iterating
       THEN /\ pending' = pending + 1
            /\ timer' = IF variant = "life" THEN "live" ELSE timer
       ELSE UNCHANGED <<pending, timer>>
  /\ pc' = "idle"
  /\ i' = 0
  /\ queue' = <<>>
  /\ before' = <<>>
  /\ UNCHANGED <<config, seed, columns, fault, cells, canvas, iterating,
                 painting, btn, gen, paints, resets>>

\* a scheduled callback runs iterate
CallbackFires ==
  /\ pc = "idle"
  /\ pending > 0
  /\ pending' = pending - 1
  /\ \/ /\ timer = "live"
        /\ timer' = "stale"
     \/ /\ pending > (IF timer = "live" THEN 1 ELSE 0)
        /\ timer' = timer
  /\ iterateEnter
  /\ UNCHANGED <<config, seed, columns, fault, cells, canvas, iterating,
                 painting, btn, paints, resets>>

(***************************************************************************)
(* start, stop, step, reset and the handlers that call them.               *)
(***************************************************************************)
\* stop(): life.js clears the timeout it remembers; part_000 cancels nothing
stop ==
  /\ iterating' = FALSE
  /\ IF variant = "life" /\ timer # "none"
       THEN /\ timer' = "none"
            /\ pending' = IF timer = "live" THEN pending - 1 ELSE pending
       ELSE UNCHANGED <<timer, pending>>

\* reset() up to its call of prepareSeed
resetEnter ==
  /\ resets < MaxResets
  /\ resets' = resets + 1
  /\ stop
  /\ btn' = buttonsAfterReset
  /\ \E text \in SeedTexts : seed' = seedOf(text)
  /\ pc' = "seed"
  /\ i' = 0

StartClick ==
  /\ pc = "idle"
  /\ btn.start
  /\ btn' = [start |-> FALSE, stop |-> TRUE, step |-> FALSE, reset |-> TRUE]
  /\ iterating' = TRUE
  /\ iterateEnter
  /\ UNCHANGED <<config, seed, columns, fault, cells, canvas, timer, pending,
                 painting, paints, resets>>

StopClick ==
  /\ pc = "idle"
  /\ btn.stop
  /\ btn' = [btn EXCEPT !.stop = FALSE, !.start = TRUE, !.step = TRUE]
  /\ stop
  /\ UNCHANGED <<config, seed, columns, fault, cells, canvas, pc, i, queue,
                 before, painting, gen, paints, resets>>

StepClick ==
  /\ pc = "idle"
  /\ btn.step
  /\ btn' = [btn EXCEPT !.reset = TRUE]
  /\ iterateEnter
  /\ UNCHANGED <<config, seed, columns, fault, cells, canvas, iterating,
                 timer, pending, painting, paints, resets>>

ResetClick ==
  /\ pc = "idle"
  /\ btn.reset
  /\ resetEnter
  /\ UNCHANGED <<config, columns, fault, cells, canvas, queue, before,
                 painting, gen, paints>>

\* part_000: a key other than Enter in the seed field enables Reset
SeedKeyup ==
  /\ pc = "idle"
  /\ variant = "part_000"
  /\ ~btn.reset
  /\ btn' = [btn EXCEPT !.reset = TRUE]
  /\ UNCHANGED <<config, seed, columns, fault, cells, canvas, pc, i, queue,
                 before, iterating, timer, pending, painting, gen, paints,
                 resets>>

\* part_000: Enter in the seed field calls reset()
SeedEnter ==
  /\ pc = "idle"
  /\ variant = "part_000"
  /\ resetEnter
  /\ UNCHANGED <<config, columns, fault, cells, canvas, queue, before,
                 painting, gen, paints>>

(***************************************************************************)
(* part_000: click and drag to paint.                                      *)
(***************************************************************************)
\* a paint that revives the cell under the mouse without testing the bounds
paintUnchecked(offsetX, offsetY) ==
  LET x == offsetX \div multiplier
      y == offsetY \div multiplier
  IN  /\ paints < MaxPaints
      /\ paints' = paints + 1
      /\ cells' = [cells EXCEPT ![<<x, y>>] = reviveValue(cells[<<x, y>>])]
      /\ canvas' = paintCell(canvas, <<x, y>>, aliveColor)
      /\ fault' = (fault \/ ~accessOk(columns, <<x, y>>))

\* paint(event) with painting set: the cell under the mouse is revived
paint(offsetX, offsetY) ==
  LET x == offsetX \div multiplier
      y == offsetY \div multiplier
  IN  /\ paints < MaxPaints
      /\ paints' = paints + 1
      /\ IF x >= 0 /\ x < width /\ y >= 0 /\ y < height
           THEN /\ cells' = [cells EXCEPT ![<<x, y>>] = reviveValue(cells[<<x, y>>])]
                /\ canvas' = paintCell(canvas, <<x, y>>, aliveColor)
                /\ fault' = (fault \/ ~accessOk(columns, <<x, y>>))
           ELSE UNCHANGED <<cells, canvas, fault>>

handleCanvasMousedown ==
  /\ pc = "idle"
  /\ variant = "part_000"
  /\ painting' = TRUE
  /\ \E offsetX \in MouseOffsets, offsetY \in MouseOffsets : paint(offsetX, offsetY)
  /\ UNCHANGED <<config, seed, columns, pc, i, queue, before, iterating,
                 timer, pending, btn, gen, resets>>

handleMouseup ==
  /\ pc = "idle"
  /\ variant = "part_000"
  /\ painting
  /\ painting' = FALSE
  /\ UNCHANGED <<config, seed, columns, fault, cells, canvas, pc, i, queue,
                 before, iterating, timer, pending, btn, gen, paints, resets>>

handleCanvasMousemove ==
  /\ pc = "idle"
  /\ variant = "part_000"
  /\ painting
  /\ \E offsetX \in MouseOffsets, offsetY \in MouseOffsets : paint(offsetX, offsetY)
  /\ UNCHANGED <<config, seed, columns, pc, i, queue, before, iterating,
                 timer, pending, painting, btn, gen, resets>>

(***************************************************************************)
(* The program.                                                            *)
(***************************************************************************)
Next ==
  \/ PrepareSeedStep
  \/ ResetFinish
  \/ ScanCell
  \/ ConsumeItem
  \/ IterateFinish
  \/ CallbackFires
  \/ StartClick
  \/ StopClick
  \/ StepClick
  \/ ResetClick
  \/ SeedKeyup
  \/ SeedEnter
  \/ handleCanvasMousedown
  \/ handleMouseup
  \/ handleCanvasMousemove

Spec == Init /\ [][Next]_vars

(***************************************************************************)
(* The same program with a seeded generator: for each seed the sequence of *)
(* outcomes is chosen once, at construction, and replayed by every         *)
(* prepareSeed that is given this seed.                                    *)
(***************************************************************************)
SeededSizes == {<<1, 2>>, <<1, 3>>}

InitSeeded == InitFor(SeededSizes, TRUE)

SpecSeeded == InitSeeded /\ [][Next]_vars

(***************************************************************************)
(* The generation engine on classic patterns.  A 5 x 5 canvas is seeded    *)
(* with three live cells and a 6 x 6 canvas with four (i < cellCount / 10),*)
(* all other cells deadColor; the patterns below are such seeded grids.    *)
(* The grid is then only changed by iterate (Start, Stop, Step and the     *)
(* scheduled callbacks).                                                   *)
(***************************************************************************)
HorizontalBar == {<<1, 2>>, <<2, 2>>, <<3, 2>>}

VerticalBar == {<<2, 1>>, <<2, 2>>, <<2, 3>>}

BlockAt(x, y) == {<<x, y>>, <<x + 1, y>>, <<x, y + 1>>, <<x + 1, y + 1>>}

Patterns ==
  {[w |-> 5, h |-> 5, live |-> HorizontalBar]}
    \cup {[w |-> 6, h |-> 6, live |-> BlockAt(x, y)] : x \in 0 .. 4, y \in 0 .. 4}

InitPatterns ==
  /\ variant \in Variants
  /\ dyingDelta \in DyingDeltas
  /\ \E p \in Patterns :
       /\ width = p.w
       /\ height = p.h
       /\ cells = [c \in (0 .. p.w - 1) \X (0 .. p.h - 1) |->
                     IF c \in p.live THEN aliveColor ELSE deadColor]
       /\ columns = 0 .. p.w - 1
  /\ stream = <<>>
  /\ seed = ""
  /\ fault = FALSE
  /\ canvas = cells
  /\ pc = "idle"
  /\ i = 0
  /\ queue = <<>>
  /\ before = <<>>
  /\ iterating = FALSE
  /\ timer = "none"
  /\ pending = 0
  /\ painting = FALSE
  /\ btn = IF variant = "life" THEN buttonsOfPage ELSE buttonsAfterReset
  /\ gen = 0
  /\ paints = 0
  /\ resets = 0

NextRun ==
  \/ ScanCell
  \/ ConsumeItem
  \/ IterateFinish
  \/ CallbackFires
  \/ StartClick
  \/ StopClick
  \/ StepClick

SpecPatterns == InitPatterns /\ [][NextRun]_vars

(***************************************************************************)
(* Vocabulary of the properties.                                           *)
(***************************************************************************)
\* iterate has built its whole queue (the scan is over)
ScanDone == pc = "consume"

\* the scan is over and no item of the queue has been applied yet
ScanStart == pc = "consume" /\ i = 0

\* iterate has applied its whole queue: the generation is complete
StepDone == pc = "consume" /\ i = Len(queue)

Alive(g) == {c \in DOMAIN g : g[c] = aliveColor}

\* the records of the queue that name cell c
RecordsFor(c) == {k \in 1 .. Len(queue) : queue[k].x = c[1] /\ queue[k].y = c[2]}

OneRecord(c, revive) ==
  /\ Cardinality(RecordsFor(c)) = 1
  /\ \A k \in RecordsFor(c) : queue[k].revive = revive

NoRecord(c) == RecordsFor(c) = {}

\* the queue obtained by evaluating the first n cells against grid g
RECURSIVE QueueOf(_, _)
QueueOf(g, n) ==
  IF n = 0 THEN <<>>
  ELSE LET c == CoordOf(n - 1)
       IN  QueueOf(g, n - 1) \o scanCell(g, c[1], c[2])

(***************************************************************************)
(* C1: every neighbour count and rule decision of a generation is computed *)
(* from the grid as it was when iterate began: while the scan runs the     *)
(* grid equals that snapshot, and when the scan is over the queue is the   *)
(* queue obtained by evaluating every cell against the snapshot; cells are *)
(* only written while the queue is consumed.                               *)
(***************************************************************************)
C1_ScanReadsSnapshot ==
  /\ pc = "scan" => cells = before
  /\ ScanStart => /\ cells = before
                  /\ queue = QueueOf(before, cellCount)

\* a scan is over whose queue holds a revive and an expire record
C1_Witness ==
  /\ ScanStart
  /\ \E k \in 1 .. Len(queue) : queue[k].revive
  /\ \E k \in 1 .. Len(queue) : ~queue[k].revive

(***************************************************************************)
(* C2: a cell that is alive when the step begins gets exactly one expire   *)
(* record and no revive record when its neighbourCount is < 2 or > 3, and  *)
(* gets no record and is still alive after the step when its               *)
(* neighbourCount is 2 or 3.                                               *)
(***************************************************************************)
C2_LiveCellRule ==
  (ScanStart \/ StepDone) =>
    \A c \in Coords :
      before[c] = aliveColor =>
        LET n == neighbourCount(before, c[1], c[2])
        IN  IF n < 2 \/ n > 3
              THEN OneRecord(c, FALSE)
              ELSE /\ NoRecord(c)
                   /\ StepDone => cells[c] = aliveColor

\* a completed step in which one live cell survived and another one died
C2_Witness ==
  /\ StepDone
  /\ \E c \in Coords :
       /\ before[c] = aliveColor
       /\ neighbourCount(before, c[1], c[2]) \in {2, 3}
       /\ cells[c] = aliveColor
  /\ \E c \in Coords :
       /\ before[c] = aliveColor
       /\ neighbourCount(before, c[1], c[2]) \notin {2, 3}
       /\ cells[c] # aliveColor

(***************************************************************************)
(* C3: a cell that is not alive and has neighbourCount 3 gets exactly one  *)
(* revive record and no expire record, whether it is fully dead or still   *)
(* dying, and its value is aliveColor after the step.                      *)
(***************************************************************************)
C3_ReviveRule ==
  (ScanStart \/ StepDone) =>
    \A c \in Coords :
      (before[c] # aliveColor /\ neighbourCount(before, c[1], c[2]) = 3) =>
        /\ OneRecord(c, TRUE)
        /\ StepDone => cells[c] = aliveColor

\* a completed step that revived a cell that was still dying
C3_Witness ==
  /\ StepDone
  /\ \E c \in Coords :
       /\ before[c] > aliveColor
       /\ before[c] < deadColor
       /\ neighbourCount(before, c[1], c[2]) = 3
       /\ cells[c] = aliveColor

(***************************************************************************)
(* C4: once the grid has been seeded, every cell's value is an integer in  *)
(* [0, deadColor]: an expire saturates at deadColor.                       *)
(***************************************************************************)
C4_VitalityInRange ==
  pc # "seed" => \A c \in Coords : cells[c] \in aliveColor .. deadColor

(***************************************************************************)
(* C5: under dyingDelta < deadColor a decaying cell that is not revived    *)
(* gains dyingDelta with each expire until it reaches deadColor, and from  *)
(* then on it gets no record and keeps the value deadColor until a revive  *)
(* is applied to it.                                                       *)
(***************************************************************************)
C5_DecayStopsAtMax ==
  (ScanDone /\ dyingDelta < deadColor) =>
    \A c \in Coords :
      /\ (before[c] > aliveColor /\ before[c] < deadColor /\ StepDone
            /\ OneRecord(c, FALSE)) =>
           /\ cells[c] = before[c] + dyingDelta
           /\ cells[c] <= deadColor
      /\ (before[c] = deadColor /\ ~OneRecord(c, TRUE)) =>
           /\ NoRecord(c)
           /\ StepDone => cells[c] = deadColor

(***************************************************************************)
(* C6: a step on a grid in which every cell is fully dead (deadColor)      *)
(* produces an empty queue and leaves every cell unchanged.                *)
(***************************************************************************)
C6_AllDeadNoOp ==
  (ScanDone /\ \A c \in Coords : before[c] = deadColor) =>
    /\ queue = <<>>
    /\ cells = before

(***************************************************************************)
(* C7: on a grid of at least 4 x 4 cells that holds a 2 x 2 block of live  *)
(* cells and otherwise only fully dead cells, a step emits no record and   *)
(* leaves every cell unchanged.                                            *)
(***************************************************************************)
C7_BlockStillLife ==
  (/\ ScanDone
   /\ width >= 4
   /\ height >= 4
   /\ \E x \in 0 .. width - 2, y \in 0 .. height - 2 : Alive(before) = BlockAt(x, y)
   /\ \A c \in Coords \ Alive(before) : before[c] = deadColor) =>
    /\ queue = <<>>
    /\ cells = before

(***************************************************************************)
(* C8: in binary mode (dyingDelta = deadColor) on the 5 x 5 grid whose     *)
(* live cells are the horizontal bar (1,2),(2,2),(3,2), all others fully   *)
(* dead, the live cells are exactly the vertical bar (2,1),(2,2),(2,3)     *)
(* after one step and exactly the horizontal bar again after two steps.    *)
(***************************************************************************)
C8_Blinker ==
  (width = 5 /\ height = 5 /\ dyingDelta = deadColor) =>
    /\ (pc = "idle" /\ gen = 0) =>
         /\ Alive(cells) = HorizontalBar
         /\ \A c \in Coords \ HorizontalBar : cells[c] = deadColor
    /\ (pc = "idle" /\ gen = 1) => Alive(cells) = VerticalBar
    /\ (pc = "idle" /\ gen = 2) => Alive(cells) = HorizontalBar
    /\ StepDone =>
         /\ Alive(before) = HorizontalBar => Alive(cells) = VerticalBar
         /\ Alive(before) = VerticalBar => Alive(cells) = HorizontalBar

\* two steps after the horizontal bar, in binary mode
C8_Witness ==
  /\ width = 5
  /\ height = 5
  /\ dyingDelta = deadColor
  /\ pc = "idle"
  /\ gen = 2
  /\ Alive(cells) = HorizontalBar

(***************************************************************************)
(* C9: on a grid at least 3 wide and 3 high with a single live cell, the   *)
(* neighbourCount of each of the 8 cells adjacent to it on the torus is 1, *)
(* that of every other dead cell is 0, that of the live cell is 0, and the *)
(* step emits an expire record for the live cell.                          *)
(***************************************************************************)
TorusNeighbours(a) ==
  {<<(a[1] + dx + width) % width, (a[2] + dy + height) % height>> :
      dx \in -1 .. 1, dy \in -1 .. 1} \ {a}

C9_SingleCellWraparound ==
  (ScanStart /\ width >= 3 /\ height >= 3 /\ Cardinality(Alive(before)) = 1) =>
    \A a \in Alive(before) :
      /\ Cardinality(TorusNeighbours(a)) = 8
      /\ neighbourCount(before, a[1], a[2]) = 0
      /\ \A c \in Coords \ {a} :
           neighbourCount(before, c[1], c[2]) =
             IF c \in TorusNeighbours(a) THEN 1 ELSE 0
      /\ OneRecord(a, FALSE)

\* the scan of a 3 x 3 grid whose only live cell is the corner (0, 0)
C9_Witness ==
  /\ ScanStart
  /\ width = 3
  /\ height = 3
  /\ Alive(before) = {<<0, 0>>}

(***************************************************************************)
(* C10: when prepareSeed completes, the number of cells with value         *)
(* aliveColor is round(width * height / 10) and every other cell is        *)
(* deadColor, also when it ran over a grid left by earlier generations.    *)
(* Amended: the number is that of the indices i < cellCount / 10, which is *)
(* cellCount / 10 rounded up.                                              *)
(***************************************************************************)
SeedDone == pc = "seed" /\ i = cellCount

\* Math.round(cellCount / 10)
RoundedLiveCount == (cellCount + 5) \div 10

\* cellCount / 10 rounded up
CeilingLiveCount == (cellCount + 9) \div 10

RECURSIVE SeedFrom(_, _, _)
SeedFrom(g, s, n) ==
  IF n = cellCount THEN g
  ELSE SeedFrom(seedStep(g, n, stream[s][n + 1]), s, n + 1)

C11_SeedDeterminesGrid ==
  SeedDone => cells = SeedFrom([c \in Coords |-> Undefined], seed, 0)

\* a second seeding has run over a grid that iterate had changed
C11_Witness == SeedDone /\ resets > 0 /\ gen > 0 /\ cellCount > 1

(***************************************************************************)
(* C12: for every grid size, width or height 1 included, the               *)
(* neighbourCount used by the step for a cell is the number of the eight   *)
(* offsets other than (0, 0) whose wrapped target is alive: only the       *)
(* offset (0, 0) is skipped, probes that wrap onto the cell itself count   *)
(* (a live cell on a 1 x 1 grid has neighbourCount 8).                     *)
(***************************************************************************)
OffsetCount(g, c) ==
  Cardinality({d \in ((-1 .. 1) \X (-1 .. 1)) \ {<<0, 0>>} :
     g[<<(c[1] + d[1] + width) % width, (c[2] + d[2] + height) % height>>]
       = aliveColor})

C12_OnlyCentreOffsetSkipped ==
  ScanStart =>
    \A c \in Coords : neighbourCount(before, c[1], c[2]) = OffsetCount(before, c)

(***************************************************************************)
(* C13: the renderer always shows the stored state.  Once reset has        *)
(* completed, and after every applied record, completed step and paint,    *)
(* the colour last painted on each cell is the cell's stored value: a      *)
(* decay is painted with the value after the decay, a revival with         *)
(* aliveColor.                                                             *)
(***************************************************************************)
C13_CanvasShowsCells == pc # "seed" => canvas = cells

\* a step has completed in which a live cell decayed and was repainted
C13_Witness ==
  /\ StepDone
  /\ dyingDelta = 4
  /\ \E c \in Coords : before[c] = aliveColor /\ cells[c] = dyingDelta
                                              /\ canvas[c] = dyingDelta

(***************************************************************************)
(* C14: the two variants of iterate compute the same queue, record for     *)
(* record and in the same order, from the same grid, for every grid with   *)
(* width >= 2 and height >= 2 (a probe then targets the cell itself only   *)
(* for the offset (0, 0)); their grids therefore stay identical step       *)
(* after step.                                                             *)
(***************************************************************************)
\* the queue life.js builds from the first n cells of grid g
RECURSIVE QueueLife(_, _)
QueueLife(g, n) ==
  IF n = 0 THEN <<>>
  ELSE LET c == CoordOf(n - 1)
       IN  QueueLife(g, n - 1)
             \o applyRules(g, c[1], c[2], neighbourCountLife(g, c[1], c[2]))

\* the queue part_000 builds from the first n cells of grid g
RECURSIVE QueueModulo(_, _)
QueueModulo(g, n) ==
  IF n = 0 THEN <<>>
  ELSE LET c == CoordOf(n - 1)
       IN  QueueModulo(g, n - 1)
             \o applyRules(g, c[1], c[2], neighbourCountModulo(g, c[1], c[2]))

C14_VariantsSameQueue ==
  (ScanStart /\ width >= 2 /\ height >= 2) =>
    /\ QueueLife(before, cellCount) = QueueModulo(before, cellCount)
    /\ queue = QueueLife(before, cellCount)

\* a scan of a 2 x 2 grid with a live cell: every probe wraps
C14_Witness ==
  /\ ScanStart
  /\ width = 2
  /\ height = 2
  /\ Alive(before) # {}
  /\ queue # <<>>

(***************************************************************************)
(* C15: a generation is only computed on demand.  iterate runs either as   *)
(* the synchronous call of a Start or Step click or as a scheduled         *)
(* callback that fires while iterating is set; so after stop() or reset()  *)
(* no callback runs iterate, and no cell is changed by it, until the next  *)
(* Start or Step click.                                                    *)
(***************************************************************************)
C15_CallbackOnlyWhileIterating == [][CallbackFires => iterating]_vars

\* the same property restricted to life.js, whose stop() clears the timer
C15_LifeCallbackOnlyWhileIterating ==
  [][(CallbackFires /\ variant = "life") => iterating]_vars

(***************************************************************************)
(* C16: whatever the sequence of Start, Stop, Step and Reset (and Enter in *)
(* the seed field of part_000) interleaved with callback firings, at most  *)
(* one iterate callback is pending at any time.                            *)
(***************************************************************************)
C16_AtMostOnePending == pending <= 1

(***************************************************************************)
(* C17: a step changes only what its queue names.  The queue holds at most *)
(* one record per coordinate, in row-major order (increasing y, then x);   *)
(* when the whole queue is applied a cell with a revive record has value   *)
(* aliveColor, a cell with an expire record has its previous value plus    *)
(* exactly dyingDelta, and every cell without a record is unchanged.  The  *)
(* set of coordinates of the grid never changes.                           *)
(***************************************************************************)
RowMajor(k) == queue[k].y * width + queue[k].x

C17_StepChangesOnlyQueued ==
  /\ DOMAIN cells = Coords
  /\ ScanDone =>
       /\ DOMAIN before = Coords
       /\ \A k \in 1 .. Len(queue) : <<queue[k].x, queue[k].y>> \in Coords
       /\ \A k \in 1 .. Len(queue) - 1 : RowMajor(k) < RowMajor(k + 1)
  /\ StepDone =>
       \A c \in Coords :
         /\ Cardinality(RecordsFor(c)) <= 1
         /\ OneRecord(c, TRUE) => cells[c] = aliveColor
         /\ OneRecord(c, FALSE) => cells[c] = before[c] + dyingDelta
         /\ NoRecord(c) => cells[c] = before[c]

\* a completed step with a revival, a decay and an untouched cell
C17_Witness ==
  /\ StepDone
  /\ \E c \in Coords : OneRecord(c, TRUE)
  /\ \E c \in Coords : OneRecord(c, FALSE) /\ before[c] > aliveColor
  /\ \E c \in Coords : NoRecord(c)

(***************************************************************************)
(* C18: no access outside the grid.  For every positive width and height,  *)
(* every coordinate read or written by prepareSeed, iterate (wrapped       *)
(* probes included), renderCells and paint lies in                         *)
(* [0, width) x [0, height) and the column cells[x] it indexes already     *)
(* exists, also during the first seeding of the empty grid and for clicks  *)
(* outside the grid; once the first seeding is over every column exists.   *)
(***************************************************************************)
C18_NoAccessOutsideGrid ==
  /\ ~fault
  /\ columns \subseteq 0 .. width - 1
  /\ (pc = "seed" /\ resets = 0) => \A n \in 0 .. i - 1 : CoordOf(n)[1] \in columns
  /\ (pc # "seed" \/ resets > 0) => columns = 0 .. width - 1

\* a generation of a 3 x 3 grid has run after a click outside the grid
C18_Witness ==
  /\ StepDone
  /\ width = 3
  /\ height = 3
  /\ gen = 1
  /\ resets = 0
  /\ paints > 0
  /\ before[<<0, 0>>] # aliveColor

(***************************************************************************)
(* C19: an automatic run stops by itself when nothing changes.  iterate    *)
(* reschedules itself only when its queue was not empty, and on a grid     *)
(* whose live cells have stabilised (here: every cell dead) the queue is   *)
(* empty, so a step of a run on such a grid schedules no callback and the  *)
(* run ends with no callback pending.                                      *)
(***************************************************************************)
AllDead(g) == \A c \in DOMAIN g : g[c] = deadColor

C19_RunStopsOnDeadGrid ==
  [][(StepDone /\ iterating /\ AllDead(before) /\ pc' = "idle")
       => pending' = 0]_vars

\* the part of the claim that holds: no callback is scheduled by a step
\* whose queue was empty
C19_ReschedulesOnlyIfQueued ==
  [][(StepDone /\ pc' = "idle" /\ pending' > pending)
       => (queue # <<>> /\ iterating)]_vars

\* why the run never ends: a step over a grid with a cell that is not alive
\* always has a record, and no cell of an all-dead grid becomes alive
C19_NonLiveAlwaysQueued ==
  StepDone =>
    /\ Alive(before) # Coords => queue # <<>>
    /\ Alive(before) = {} => Alive(cells) = {}

====
